---- MODULE Spec2Model ----
(***************************************************************************)
(* The permutation tests of docs/04_python_stat.py: the single-protein     *)
(* test (lines 134-153) and the many-protein test (lines 162-192), run as  *)
(* notebook cells against one kernel.  Floating-point values are modelled  *)
(* as exact rationals with a not-a-number value; the Mersenne Twister of   *)
(* numpy's RandomState is modelled as a small linear congruential          *)
(* generator driving numpy's Fisher-Yates shuffle.                         *)
(***************************************************************************)
EXTENDS Integers, Sequences, FiniteSets, TLC

\* ---------------------------------------------------------------- bounds
N == 3            \* rows of the table brca
NSim == 2         \* rounds of the single-protein test (nsim, line 134)
NSimBatch == 2    \* rounds of the many-protein test (nsim, line 170)
MaxMissing == 1   \* missing values in the column of the tested protein

\* ------------------------------------------------------- the input table
ExprNames == <<"NP_1", "NP_2">>
K == Len(ExprNames)
protein == ExprNames[1]
ColOf(name) == CHOOSE c \in 1..K : ExprNames[c] = name
Seeds == {294, 205}

\* ------------------------------------------------------ float64 values
NaN == [nan |-> TRUE, num |-> 0, den |-> 1]

RECURSIVE Gcd(_, _)
Gcd(a, b) == IF b = 0 THEN a ELSE Gcd(b, a % b)

AbsInt(n) == IF n < 0 THEN -n ELSE n

\* In the operators on floats u, v (and g) name the values of the
\* operands, each evaluated once.
Float(n, d) ==
    CHOOSE f \in {[nan |-> FALSE, num |-> u \div g, den |-> v \div g] :
                     u \in {n}, v \in {d}, g \in {Gcd(AbsInt(n), d)}} : TRUE

Add(a, b) ==
    CHOOSE r \in {IF u.nan \/ v.nan THEN NaN
                  ELSE Float(u.num * v.den + v.num * u.den, u.den * v.den) :
                  u \in {a}, v \in {b}} : TRUE

Sub(a, b) ==
    CHOOSE r \in {IF u.nan \/ v.nan THEN NaN
                  ELSE Float(u.num * v.den - v.num * u.den, u.den * v.den) :
                  u \in {a}, v \in {b}} : TRUE

Div(a, n) ==
    CHOOSE r \in {IF u.nan \/ v = 0 THEN NaN ELSE Float(u.num, u.den * v) :
                  u \in {a}, v \in {n}} : TRUE

\* np.abs
Abs(a) == IF a.nan THEN NaN ELSE Float(AbsInt(a.num), a.den)

\* a comparison in which a not-a-number left side is greater
GtOrNan(a, b) == a.nan \/ (~b.nan /\ a.num * b.den > b.num * a.den)

\* a > b on floats: False when either side is not-a-number
Gt(a, b) == ~a.nan /\ ~b.nan /\ a.num * b.den > b.num * a.den

\* a < b on floats
Lt(a, b) == ~a.nan /\ ~b.nan /\ a.num * b.den < b.num * a.den

\* range(n - 1): a loop that stops one iteration early
RangeShort(n) == 0..(n - 2)

\* range(n)
Range(n) == 0..(n - 1)

\* np.zeros(n + 1): an array one element too long
ZerosOneMore(n) == [j \in 1..(n + 1) |-> Float(0, 1)]

\* np.zeros(n)
Zeros(n) == [j \in 1..n |-> Float(0, 1)]

ExprValues == {Float(0, 1), Float(1, 1), NaN}
StatusValues == {"Positive", "Negative"}

\* ------------------------------------------------------- numpy helpers
\* y[mask]: the values of y at the positions where mask holds, in order
RECURSIVE Take(_, _, _)
Take(y, mask, j) ==
    IF j > Len(y) THEN <<>>
    ELSE IF mask[j] THEN <<y[j]>> \o Take(y, mask, j + 1)
    ELSE Take(y, mask, j + 1)

\* x == g, elementwise
Eq(x, g) == [j \in 1..Len(x) |-> x[j] = g]

RECURSIVE NanSum(_)
NanSum(s) ==
    IF s = <<>> THEN Float(0, 1)
    ELSE IF Head(s).nan THEN NanSum(Tail(s))
    ELSE Add(Head(s), NanSum(Tail(s)))

RECURSIVE NanCount(_)
NanCount(s) ==
    IF s = <<>> THEN 0
    ELSE (IF Head(s).nan THEN 0 ELSE 1) + NanCount(Tail(s))

\* the sum of the non-missing values divided by their number less one, and
\* not-a-number when there is at most one
NanMeanDdof(s) ==
    Div(NanSum(s), IF NanCount(s) > 1 THEN NanCount(s) - 1 ELSE 0)

\* np.nanmean: not-a-number for an empty or all-missing slice
NanMean(s) == Div(NanSum(s), NanCount(s))

\* the number of True values before the first False
RECURSIVE CountTrueLeading(_)
CountTrueLeading(b) ==
    IF b = <<>> \/ ~Head(b) THEN 0 ELSE 1 + CountTrueLeading(Tail(b))

\* np.mean of a boolean array: the number of True values, and the mean
RECURSIVE CountTrue(_)
CountTrue(b) ==
    IF b = <<>> THEN 0 ELSE (IF Head(b) THEN 1 ELSE 0) + CountTrue(Tail(b))

\* the count divided by len(b) - 1
MeanBoolShort(b) == Div(Float(CountTrue(b), 1), Len(b) - 1)

MeanBool(b) == Div(Float(CountTrue(b), 1), Len(b))

\* np.where(brca['ER Status']=='Positive', -1, 1)
Labels(st) == [j \in 1..Len(st) |-> IF st[j] = "Positive" THEN -1 ELSE 1]

\* the two groups the other way round
GroupDiffFlipped(y, x) ==
    Sub(NanMean(Take(y, Eq(x, -1), 1)), NanMean(Take(y, Eq(x, 1), 1)))

\* missing values are skipped in the first group only: the mean of the
\* second group is not-a-number when the group holds a missing value
GroupDiffPlainMean(y, x) ==
    LET b == Take(y, Eq(x, -1), 1)
    IN  Sub(NanMean(Take(y, Eq(x, 1), 1)),
            IF NanCount(b) = Len(b) THEN NanMean(b) ELSE NaN)

\* np.nanmean(y[x==1]) - np.nanmean(y[x==-1])
GroupDiff(y, x) ==
    Sub(NanMean(Take(y, Eq(x, 1), 1)), NanMean(Take(y, Eq(x, -1), 1)))

\* ---------------------------------------------------------------- state
VARIABLES
    status,     \* brca['ER Status']
    exprs,      \* brca[expr_names], one sequence of N floats per column
    seed,       \* the seed of line 136
    pc,         \* the next cell or loop iteration to execute
    rng, nsim, x, y, obs_diff, diffs, i, x1, pval,
    obs_diffs, pvals, exprs_shortlist,
    prev,       \* the results of the previous execution of the cells
    runs        \* the locals of the invocations of lines 142-153 that run
                \* side by side (empty when the cells run one after another)

vars == <<status, exprs, seed, pc, rng, nsim, x, y, obs_diff, diffs, i, x1,
          pval, obs_diffs, pvals, exprs_shortlist, prev, runs>>

\* -------------------------------------------------- np.random.RandomState
\* the generator as a previous cell left it, not seeded again
RandomStateStale(s) == rng

RandomState(s) == s % 64

RngNext(r) == (13 * r + 7) % 64

RECURSIVE MaskFor(_, _)
MaskFor(max, m) == IF m >= max THEN m ELSE MaskFor(max, 2 * m + 1)

\* a uniform draw from 0..max by masked rejection; <<value, generator>>
RECURSIVE RandomInterval(_, _)
RandomInterval(r, max) ==
    IF max = 0 THEN <<0, r>>
    ELSE LET r1 == RngNext(r)
             v == (r1 \div 8) % (MaskFor(max, 1) + 1)
         IN  IF v <= max THEN <<v, r1>> ELSE RandomInterval(r1, max)

\* a[p] = a[q] without the exchange
SwapOverwrite(a, p, q) == [a EXCEPT ![p] = a[q]]

Swap(a, p, q) == [a EXCEPT ![p] = a[q], ![q] = a[p]]

\* RandomState.shuffle: for i in reversed(range(1, n)): swap a[i], a[j]
RECURSIVE Shuffle(_, _, _)
Shuffle(a, r, k) ==
    IF k < 2 THEN [arr |-> a, rng |-> r]
    ELSE CHOOSE s \in {Shuffle(Swap(a, k, d[1] + 1), d[2], k - 1) :
                          d \in {RandomInterval(r, k - 1)}} : TRUE

\* rng.shuffle(x): the array itself is shuffled
PermutationInPlace(r, a) ==
    LET s == Shuffle(a, r, Len(a))
    IN  [arr |-> s.arr, rng |-> s.rng, arg |-> s.arr]

\* rng.permutation(x): a shuffled copy of x (arr), the advanced generator
\* (rng) and the argument as the call leaves it (arg)
\* a permutation of the result of the round before, when there is one
PermutationChained(r, a) ==
    LET s == Shuffle(IF Len(x1) = Len(a) THEN x1 ELSE a, r, Len(a))
    IN  [arr |-> s.arr, rng |-> s.rng, arg |-> a]

Permutation(r, a) ==
    LET s == Shuffle(a, r, Len(a))
    IN  [arr |-> s.arr, rng |-> s.rng, arg |-> a]

\* the number of missing values of a column
Missing(col) == Cardinality({j \in 1..Len(col) : col[j].nan})

\* the table read at line 117: the column of the tested protein has at most
\* MaxMissing missing values, the other columns are complete
Init ==
    /\ status \in [1..N -> StatusValues]
    /\ exprs \in [1..K -> [1..N -> ExprValues]]
    /\ \A c \in 1..K :
          Missing(exprs[c]) <= (IF ExprNames[c] = protein THEN MaxMissing ELSE 0)
    /\ seed \in Seeds
    /\ pc = "cell134"
    /\ rng = 0
    /\ nsim = 0
    /\ x = <<>>
    /\ y = <<>>
    /\ obs_diff = NaN
    /\ diffs = <<>>
    /\ i = 0
    /\ x1 = <<>>
    /\ pval = NaN
    /\ obs_diffs = <<>>
    /\ pvals = <<>>
    /\ exprs_shortlist = <<>>
    /\ runs = <<>>
    /\ prev = [ran |-> FALSE, obs_diff |-> NaN, pval |-> NaN,
               obs_diffs |-> <<>>, pvals |-> <<>>]

\* lines 134-142: seed the generator, derive x and y, the observed statistic
Cell134 ==
    /\ pc = "cell134"
    /\ nsim' = NSim
    /\ rng' = RandomState(seed)
    /\ x' = Labels(status)
    /\ y' = exprs[ColOf(protein)]
    /\ obs_diff' = GroupDiff(y', x')
    /\ diffs' = Zeros(NSim)
    /\ i' = 0
    /\ pc' = IF NSim > 0 THEN "loop143" ELSE "cell153"
    /\ UNCHANGED <<status, exprs, seed, x1, pval, obs_diffs, pvals,
                   exprs_shortlist, prev, runs>>

\* lines 143-145: one round of the single-protein loop
Loop143 ==
    /\ pc = "loop143"
    /\ \E p \in {Permutation(rng, x)} :
           /\ x1' = p.arr
           /\ rng' = p.rng
           /\ x' = p.arg
           /\ diffs' = [diffs EXCEPT ![i + 1] = GroupDiff(y, p.arr)]
    /\ i' = i + 1
    /\ pc' = IF i + 1 \in Range(nsim) THEN "loop143" ELSE "cell153"
    /\ UNCHANGED <<status, exprs, seed, nsim, y, obs_diff, pval,
                   obs_diffs, pvals, exprs_shortlist, prev, runs>>

\* a >= b on floats
Ge(a, b) == ~a.nan /\ ~b.nan /\ a.num * b.den >= b.num * a.den

\* np.mean(np.abs(diffs) >= np.abs(obs_diff))
TwoSidedInclusive(d, obs) ==
    MeanBool([j \in 1..Len(d) |-> Ge(Abs(d[j]), Abs(obs))])

\* np.mean(diffs > obs_diff): the absolute values left out
TwoSidedNoAbs(d, obs) == MeanBool([j \in 1..Len(d) |-> Gt(d[j], obs)])

\* a tie counted like a round that exceeds the observed statistic
TwoSidedTies(d, obs) ==
    MeanBool([j \in 1..Len(d) |->
                 Gt(Abs(d[j]), Abs(obs)) \/ Abs(d[j]) = Abs(obs)])

\* line 153: pval = np.mean(np.abs(diffs) > np.abs(obs_diff))
TwoSided(d, obs) == MeanBool([j \in 1..Len(d) |-> Gt(Abs(d[j]), Abs(obs))])

Cell153 ==
    /\ pc = "cell153"
    /\ pval' = TwoSided(diffs, obs_diff)
    /\ pc' = "cell167"
    /\ UNCHANGED <<status, exprs, seed, rng, nsim, x, y, obs_diff, diffs, i,
                   x1, obs_diffs, pvals, exprs_shortlist, prev, runs>>

\* exprs[mask].mean(axis=0): per column, the mean of the non-missing cells of
\* the selected rows; not-a-number when there is none
RECURSIVE SumRows(_, _)
SumRows(col, rows) ==
    IF rows = {} THEN Float(0, 1)
    ELSE LET j == CHOOSE r \in rows : TRUE
         IN  Add(col[j], SumRows(col, rows \ {j}))

\* the mean over the rows that are complete in every column
FrameMeanDropRows(ex, mask) ==
    [c \in 1..Len(ex) |->
        LET rows == {j \in 1..Len(mask) :
                        mask[j] /\ \A k \in 1..Len(ex) : ~ex[k][j].nan}
        IN  Div(SumRows(ex[c], rows), Cardinality(rows))]

\* a column mean that is not-a-number when a selected row of the column
\* is missing
FrameMeanPlain(ex, mask) ==
    [c \in 1..Len(ex) |->
        LET rows == {j \in 1..Len(mask) : mask[j] /\ ~ex[c][j].nan}
        IN  IF \E j \in 1..Len(mask) : mask[j] /\ ex[c][j].nan THEN NaN
            ELSE Div(SumRows(ex[c], rows), Cardinality(rows))]

FrameMean(ex, mask) ==
    [c \in 1..Len(ex) |->
        LET rows == {j \in 1..Len(mask) : mask[j] /\ ~ex[c][j].nan}
        IN  Div(SumRows(ex[c], rows), Cardinality(rows))]

\* exprs[x==1].mean(axis=0) - exprs[x==-1].mean(axis=0)
FrameDiff(ex, lab) ==
    LET a == FrameMean(ex, Eq(lab, 1))
        b == FrameMean(ex, Eq(lab, -1))
    IN  [c \in 1..Len(ex) |-> Sub(a[c], b[c])]

\* line 167
Cell167 ==
    /\ pc = "cell167"
    /\ obs_diffs' = FrameDiff(exprs, x)
    /\ pc' = "cell170"
    /\ UNCHANGED <<status, exprs, seed, rng, nsim, x, y, obs_diff, diffs, i,
                   x1, pval, pvals, exprs_shortlist, prev, runs>>

\* lines 170-171: nsim = 1000; diffs = np.zeros((nsim, exprs.shape[1]))
Cell170 ==
    /\ pc = "cell170"
    /\ nsim' = NSimBatch
    /\ diffs' = [r \in 1..NSimBatch |-> Zeros(Len(exprs))]
    /\ i' = 0
    /\ pc' = IF NSimBatch > 0 THEN "loop172" ELSE "cell178"
    /\ UNCHANGED <<status, exprs, seed, rng, x, y, obs_diff, x1, pval,
                   obs_diffs, pvals, exprs_shortlist, prev, runs>>

\* a round that draws a fresh permutation for every column
RECURSIVE ColumnDraws(_, _, _, _)
ColumnDraws(ex, r, lab, c) ==
    IF c > Len(ex) THEN [x1 |-> lab, rng |-> r, arg |-> lab, row |-> <<>>]
    ELSE LET p == Permutation(r, lab)
             rest == ColumnDraws(ex, p.rng, lab, c + 1)
         IN  [x1 |-> IF c = Len(ex) THEN p.arr ELSE rest.x1,
              rng |-> rest.rng,
              arg |-> rest.arg,
              row |-> <<FrameDiff(ex, p.arr)[c]>> \o rest.row]

BatchRoundPerColumn(ex, r, lab) == ColumnDraws(ex, r, lab, 1)

\* a round whose statistics are computed from the permutation that x1
\* held before the round's draw
BatchRoundStale(ex, r, lab) ==
    LET p == Permutation(r, lab)
    IN  [x1 |-> p.arr, rng |-> p.rng, arg |-> p.arg,
         row |-> FrameDiff(ex, x1)]

\* a round that draws from a generator created anew for the many-protein
\* test
BatchRoundReseeded(ex, r, lab) ==
    LET p == Permutation(IF i = 0 THEN RandomState(seed) ELSE r, lab)
    IN  [x1 |-> p.arr, rng |-> p.rng, arg |-> p.arg,
         row |-> FrameDiff(ex, p.arr)]

\* lines 173-174: x1 = rng.permutation(x);
\* diffs[i,:] = exprs[x1==1].mean(axis=0) - exprs[x1==-1].mean(axis=0)
BatchRound(ex, r, lab) ==
    CHOOSE round \in {[x1 |-> p.arr, rng |-> p.rng, arg |-> p.arg,
                       row |-> FrameDiff(ex, p.arr)] :
                      p \in {Permutation(r, lab)}} : TRUE

\* lines 172-174: one round of the many-protein loop
Loop172 ==
    /\ pc = "loop172"
    /\ \E round \in {BatchRound(exprs, rng, x)} :
           /\ x1' = round.x1
           /\ rng' = round.rng
           /\ x' = round.arg
           /\ diffs' = [diffs EXCEPT ![i + 1] = round.row]
    /\ i' = i + 1
    /\ pc' = IF i + 1 \in Range(nsim) THEN "loop172" ELSE "cell178"
    /\ UNCHANGED <<status, exprs, seed, nsim, y, obs_diff, pval,
                   obs_diffs, pvals, exprs_shortlist, prev, runs>>

\* lines 178-179: pvals = np.zeros(exprs.shape[1])
Cell178 ==
    /\ pc = "cell178"
    /\ pvals' = Zeros(Len(exprs))
    /\ i' = 0
    /\ pc' = IF Len(exprs) > 0 THEN "loop182" ELSE "cell192"
    /\ UNCHANGED <<status, exprs, seed, rng, nsim, x, y, obs_diff, diffs, x1,
                   pval, obs_diffs, exprs_shortlist, prev, runs>>

\* the column after c, cyclically
ColumnShifted(d, c) == [r \in 1..Len(d) |-> d[r][(c % Len(d[r])) + 1]]

\* the column without its last round
ColumnDropLast(d, c) == [r \in 1..(Len(d) - 1) |-> d[r][c]]

\* diffs[:,c]
Column(d, c) == [r \in 1..Len(d) |-> d[r][c]]

\* np.mean(np.abs(diffs[:,i]) > np.abs(obs_diffs.to_numpy()[i]))
OneSidedAbs(d, obs) == MeanBool([j \in 1..Len(d) |-> Gt(Abs(d[j]), Abs(obs))])

\* np.mean(diffs[:,i] > obs_diffs.to_numpy()[i])
OneSided(d, obs) == MeanBool([j \in 1..Len(d) |-> Gt(d[j], obs)])

\* lines 182-183: one iteration of the p-value loop
Loop182 ==
    /\ pc = "loop182"
    /\ pvals' = [pvals EXCEPT ![i + 1] =
                    OneSided(Column(diffs, i + 1), obs_diffs[i + 1])]
    /\ i' = i + 1
    /\ pc' = IF i + 1 \in Range(Len(pvals)) THEN "loop182" ELSE "cell192"
    /\ UNCHANGED <<status, exprs, seed, rng, nsim, x, y, obs_diff, diffs, x1,
                   pval, obs_diffs, exprs_shortlist, prev, runs>>

\* the threshold 0.0001 of line 192
Threshold == Float(1, 10000)

\* a list of the columns whose p-value is below one
RECURSIVE ShortlistBelowOne(_, _)
ShortlistBelowOne(pv, c) ==
    IF c > Len(pv) THEN <<>>
    ELSE IF Lt(pv[c], Float(1, 1))
         THEN <<ExprNames[c]>> \o ShortlistBelowOne(pv, c + 1)
    ELSE ShortlistBelowOne(pv, c + 1)

\* [u for i, u in enumerate(list(exprs.columns)) if pvals[i] < 0.0001]
RECURSIVE Shortlist(_, _)
Shortlist(pv, c) ==
    IF c > Len(pv) THEN <<>>
    ELSE IF Lt(pv[c], Threshold) THEN <<ExprNames[c]>> \o Shortlist(pv, c + 1)
    ELSE Shortlist(pv, c + 1)

\* line 192
Cell192 ==
    /\ pc = "cell192"
    /\ exprs_shortlist' = Shortlist(pvals, 1)
    /\ pc' = "done"
    /\ UNCHANGED <<status, exprs, seed, rng, nsim, x, y, obs_diff, diffs, i,
                   x1, pval, obs_diffs, pvals, prev, runs>>

\* the cells are executed again from line 134 in the same kernel: every
\* variable keeps its value until a cell rebinds it
RunAgain ==
    /\ pc = "done"
    /\ prev' = [ran |-> TRUE, obs_diff |-> obs_diff, pval |-> pval,
                obs_diffs |-> obs_diffs, pvals |-> pvals]
    /\ pc' = "cell134"
    /\ UNCHANGED <<status, exprs, seed, rng, nsim, x, y, obs_diff, diffs, i,
                   x1, pval, obs_diffs, pvals, exprs_shortlist, runs>>

Next ==
    \/ Cell134
    \/ Loop143
    \/ Cell153
    \/ Cell167
    \/ Cell170
    \/ Loop172
    \/ Cell178
    \/ Loop182
    \/ Cell192

Spec == Init /\ [][Next]_vars

\* the same cells on a complete table, executed any number of times
InitComplete == Init /\ \A c \in 1..K : Missing(exprs[c]) = 0

NextAgain == Next \/ RunAgain

SpecAgain == InitComplete /\ [][NextAgain]_vars

\* one execution on a complete table, with the interpreter always
\* executing the next statement: no cell waits for input or for another
\* thread
SpecLive == InitComplete /\ [][Next]_vars /\ WF_vars(Next)

\* the kernel before line 134 is executed
Fresh ==
    /\ pc = "cell134"
    /\ rng = 0
    /\ nsim = 0
    /\ x = <<>>
    /\ y = <<>>
    /\ obs_diff = NaN
    /\ diffs = <<>>
    /\ i = 0
    /\ x1 = <<>>
    /\ pval = NaN
    /\ obs_diffs = <<>>
    /\ pvals = <<>>
    /\ exprs_shortlist = <<>>
    /\ runs = <<>>
    /\ prev = [ran |-> FALSE, obs_diff |-> NaN, pval |-> NaN,
               obs_diffs |-> <<>>, pvals |-> <<>>]

\* a complete table of expressions whose ER Status column has rows without
\* a status (read as a missing value, "NA")
AnyStatusValues == StatusValues \cup {"NA"}

InitNA ==
    /\ status \in [1..N -> AnyStatusValues]
    /\ exprs \in [1..K -> [1..N -> ExprValues]]
    /\ \A c \in 1..K : Missing(exprs[c]) = 0
    /\ seed \in Seeds
    /\ Fresh

SpecNA == InitNA /\ [][Next]_vars

\* the single-protein test on the six-row example: outcome 10, 12, 11, 1, 2, 0
\* and three rows of each category, with one round whose permutation is
\* supplied by the caller in place of the generator's draw
ExampleOutcome ==
    <<Float(10, 1), Float(12, 1), Float(11, 1),
      Float(1, 1), Float(2, 1), Float(0, 1)>>

ExampleLabels == <<1, 1, 1, -1, -1, -1>>

\* the label vectors that are rearrangements of lab
Rearrangements(lab) ==
    {a \in [1..Len(lab) -> {-1, 1}] :
        Cardinality({j \in 1..Len(lab) : a[j] = 1})
            = Cardinality({j \in 1..Len(lab) : lab[j] = 1})}

InitExample ==
    /\ status \in [1..Len(ExampleLabels) -> StatusValues]
    /\ Labels(status) \in Rearrangements(ExampleLabels)
    /\ exprs = [c \in 1..K |-> ExampleOutcome]
    /\ seed \in Seeds
    /\ Fresh

\* lines 134-142 with nsim = 1
ExampleCell134 ==
    /\ pc = "cell134"
    /\ nsim' = 1
    /\ rng' = RandomState(seed)
    /\ x' = Labels(status)
    /\ y' = exprs[ColOf(protein)]
    /\ obs_diff' = GroupDiff(y', x')
    /\ diffs' = Zeros(1)
    /\ i' = 0
    /\ pc' = "loop143"
    /\ UNCHANGED <<status, exprs, seed, x1, pval, obs_diffs, pvals,
                   exprs_shortlist, prev, runs>>

\* lines 143-145 with x1 any rearrangement of x
InjectedRound ==
    /\ pc = "loop143"
    /\ \E a \in Rearrangements(x) :
          /\ x1' = a
          /\ diffs' = [diffs EXCEPT ![i + 1] = GroupDiff(y, a)]
    /\ i' = i + 1
    /\ pc' = IF i + 1 \in Range(nsim) THEN "loop143" ELSE "cell153"
    /\ UNCHANGED <<status, exprs, seed, rng, nsim, x, y, obs_diff, pval,
                   obs_diffs, pvals, exprs_shortlist, prev, runs>>

NextExample == ExampleCell134 \/ InjectedRound \/ Cell153

SpecExample == InitExample /\ [][NextExample]_vars

\* two invocations of the single-protein loop, lines 142-153, side by
\* side on the same x, y and obs_diff. They draw either from the one
\* generator rng of line 136 (pc = "shared") or each from a generator of
\* its own seeded like it (pc = "separate"). rng.permutation is not one
\* step: each swap of the shuffle takes its random index from the
\* generator, and the swaps of the two invocations interleave.
Invocations == {"a", "b"}

\* the generator invocation r draws from
GeneratorShared(r) == rng

Generator(r) == IF pc = "separate" THEN runs[r].rng ELSE rng

\* a complete table; the columns the loop does not read repeat the column
\* of the tested protein
InitShared ==
    /\ status \in [1..N -> StatusValues]
    /\ exprs \in [1..K -> [1..N -> ExprValues]]
    /\ \A c \in 1..K :
          /\ Missing(exprs[c]) = 0
          /\ ExprNames[c] # protein => exprs[c] = exprs[ColOf(protein)]
    /\ seed \in Seeds
    /\ Fresh

\* lines 134-142, then the two invocations start
SharedCell134 ==
    /\ pc = "cell134"
    /\ pc' \in {"shared", "separate"}
    /\ nsim' = NSim
    /\ rng' = RandomState(seed)
    /\ x' = Labels(status)
    /\ y' = exprs[ColOf(protein)]
    /\ obs_diff' = GroupDiff(y', x')
    /\ runs' = [r \in Invocations |->
                  [rng |-> RandomState(seed), i |-> 0, k |-> Len(x'),
                   x1 |-> x', diffs |-> Zeros(NSim), pval |-> NaN]]
    /\ UNCHANGED <<status, exprs, seed, diffs, i, x1, pval, obs_diffs, pvals,
                   exprs_shortlist, prev>>

\* one swap of the shuffle of invocation r (line 144); the last swap
\* completes x1, and line 145 stores the round's statistic; after the
\* last round line 153 computes the p-value
DrawStep(r) ==
    /\ pc \in {"shared", "separate"}
    /\ runs[r].i \in Range(nsim)
    /\ LET me == runs[r]
           d == RandomInterval(Generator(r), me.k - 1)
           arr == Swap(me.x1, me.k, d[1] + 1)
           drawn == me.k - 1 < 2
           ds == IF drawn
                 THEN [me.diffs EXCEPT ![me.i + 1] = GroupDiff(y, arr)]
                 ELSE me.diffs
           last == drawn /\ me.i + 1 \notin Range(nsim)
       IN  /\ runs' = [runs EXCEPT ![r] =
                          [rng |-> IF pc = "separate" THEN d[2] ELSE me.rng,
                           i |-> IF drawn THEN me.i + 1 ELSE me.i,
                           k |-> IF drawn THEN Len(x) ELSE me.k - 1,
                           x1 |-> IF drawn THEN x ELSE arr,
                           diffs |-> ds,
                           pval |-> IF last THEN TwoSided(ds, obs_diff)
                                    ELSE me.pval]]
           /\ rng' = IF pc = "separate" THEN rng ELSE d[2]
    /\ UNCHANGED <<status, exprs, seed, pc, nsim, x, y, obs_diff, diffs, i,
                   x1, pval, obs_diffs, pvals, exprs_shortlist, prev>>

NextShared == SharedCell134 \/ \E r \in Invocations : DrawStep(r)

SpecShared == InitShared /\ [][NextShared]_vars

\* ------------------------------------------------------------ properties
\* the rows of column col that group g of the labels lab is averaged over
GroupRows(col, lab, g) == {j \in 1..Len(lab) : lab[j] = g /\ ~col[j].nan}

RECURSIVE SumOf(_, _)
SumOf(col, rows) ==
    IF rows = {} THEN Float(0, 1)
    ELSE LET m == CHOOSE r \in rows : \A q \in rows : q <= r
         IN  Add(SumOf(col, rows \ {m}), col[m])

\* v is mean(col | lab = 1) - mean(col | lab = -1) over the non-missing
\* cells, and not-a-number exactly when one of the two groups has none
IsMeanDiff(v, col, lab) ==
    LET a == GroupRows(col, lab, 1)
        b == GroupRows(col, lab, -1)
    IN  IF a = {} \/ b = {} THEN v.nan
        ELSE v = Sub(Div(SumOf(col, a), Cardinality(a)),
                     Div(SumOf(col, b), Cardinality(b)))

\* a group of the observed labels has no non-missing value in column col
Degenerate(col, lab) ==
    GroupRows(col, lab, 1) = {} \/ GroupRows(col, lab, -1) = {}

\* |a| > |b|, |a| = |b| on defined values
AbsGreater(a, b) ==
    ~a.nan /\ ~b.nan /\ AbsInt(a.num) * b.den > AbsInt(b.num) * a.den

AbsEqual(a, b) ==
    ~a.nan /\ ~b.nan /\ AbsInt(a.num) * b.den = AbsInt(b.num) * a.den

StrictCount(d, obs) == Cardinality({j \in 1..Len(d) : AbsGreater(d[j], obs)})
TieCount(d, obs) == Cardinality({j \in 1..Len(d) : AbsEqual(d[j], obs)})
GreaterCount(d, obs) == Cardinality({j \in 1..Len(d) : Gt(d[j], obs)})

\* the single-protein test has computed pval and diffs is still its null
\* distribution
SingleDone == pc = "cell167"

\* the many-protein test has computed every pvals[c]
BatchDone == pc \in {"cell192", "done"}

\* every status is Positive or Negative
BinaryLabels == \A j \in 1..N : status[j] \in {"Positive", "Negative"}

C3_AtLeastOneOverM ==
    (SingleDone /\ BinaryLabels /\ ~Degenerate(y, x)) =>
        Ge(pval, Float(1, nsim))

\* C3 (amended): every returned p-value lies in [0, 1]; it is exactly 0 when
\* no round is strictly more extreme than the observed statistic.
C3_UnitInterval ==
    /\ SingleDone => Ge(pval, Float(0, 1)) /\ Ge(Float(1, 1), pval)
    /\ BatchDone =>
          \A c \in 1..K : Ge(pvals[c], Float(0, 1)) /\ Ge(Float(1, 1), pvals[c])

C3_Witness ==
    /\ SingleDone
    /\ BinaryLabels
    /\ ~Degenerate(y, x)
    /\ \A j \in 1..nsim : ~diffs[j].nan /\ ~AbsEqual(diffs[j], obs_diff)
    /\ pval = Float(0, 1)

\* C4: the observed statistic and every permuted statistic of a column are
\* mean(label 1) - mean(label -1) over the non-missing values, in the single
\* test and in the many-protein test.
C4_Orientation ==
    /\ pc # "cell134" => IsMeanDiff(obs_diff, y, x)
    /\ (pc \in {"loop143", "cell153"} /\ i >= 1) =>
          IsMeanDiff(diffs[i], y, x1)
    /\ pc \in {"cell170", "loop172", "cell178", "loop182", "cell192", "done"}
          => \A c \in 1..K : IsMeanDiff(obs_diffs[c], exprs[c], x)
    /\ (pc \in {"loop172", "cell178"} /\ i >= 1) =>
          \A c \in 1..K : IsMeanDiff(diffs[i][c], exprs[c], x1)

C4_Witness ==
    /\ pc = "cell153"
    /\ Gt(obs_diff, Float(0, 1))
    /\ Lt(diffs[i], Float(0, 1))
    /\ x1 # x

\* the number of labels g in lab
CountLabel(lab, g) == Cardinality({j \in 1..Len(lab) : lab[j] = g})

\* C5: in every round the permuted labels are a rearrangement of the
\* original labels, and the outcome values, missing markers included, are
\* at their original positions.
C5_Rearrangement ==
    (pc \in {"loop143", "cell153", "loop172", "cell178"} /\ i >= 1) =>
        /\ Len(x1) = N
        /\ \A g \in {-1, 1} : CountLabel(x1, g) = CountLabel(x, g)
        /\ x = Labels(status)
        /\ y = exprs[ColOf(protein)]

C5_Witness ==
    /\ pc = "loop172"
    /\ i >= 1
    /\ x1 # x
    /\ \E j \in 1..N : y[j].nan

\* the generator after n draws of a permutation of lab
RECURSIVE RngAfter(_, _, _)
RngAfter(r, lab, n) ==
    IF n = 0 THEN r ELSE RngAfter(Permutation(r, lab).rng, lab, n - 1)

\* C6: every round of the many-protein test draws one permutation and uses
\* it for all columns; a run of the test draws nsim permutations whatever
\* the number of columns.
C6_OneDrawPerRound ==
    /\ (pc \in {"loop172", "cell178"} /\ i >= 1) =>
          /\ \A c \in 1..K : diffs[i][c] = GroupDiff(exprs[c], x1)
          /\ rng = RngAfter(RandomState(seed), x, NSim + i)
    /\ pc = "cell178" => i = nsim

C6_Witness ==
    /\ pc = "cell178"
    /\ x1 # x
    /\ ~diffs[i][1].nan
    /\ ~diffs[i][2].nan
    /\ diffs[i][1] # diffs[i][2]
    /\ rng # RngAfter(RandomState(seed), x, NSim + K * nsim)

\* v is an integer multiple of 1/n
MultipleOf(v, n) == ~v.nan /\ (v.num * n) % v.den = 0

\* C7: when a test completes, the null distribution of every column holds
\* nsim values and every p-value is an integer multiple of 1/nsim.
C7_NullSize ==
    /\ SingleDone => Len(diffs) = nsim /\ i = nsim /\ MultipleOf(pval, nsim)
    /\ pc = "cell178" => i = nsim
    /\ BatchDone =>
          /\ Len(diffs) = nsim
          /\ \A r \in 1..Len(diffs) : Len(diffs[r]) = K
          /\ \A c \in 1..K : MultipleOf(pvals[c], nsim)

C7_Witness ==
    /\ BatchDone
    /\ pvals[1] = Float(1, nsim)
    /\ pvals[2] = Float(0, 1)

\* the labels with the two categories exchanged
Exchanged(lab) == [j \in 1..Len(lab) |-> -lab[j]]

Neg(v) == IF v.nan THEN NaN ELSE Float(-v.num, v.den)

\* the null distribution lines 143-145 build from generator r
RECURSIVE NullOf(_, _, _, _)
NullOf(r, lab, col, n) ==
    IF n = 0 THEN <<>>
    ELSE LET p == Permutation(r, lab)
         IN  <<GroupDiff(col, p.arr)>> \o NullOf(p.rng, lab, col, n - 1)

\* C8: with the two categories exchanged and the same draws, the observed
\* statistic and every null value are negated and the two-sided p-value is
\* the same.
C8_LabelSwap ==
    /\ SingleDone =>
          LET sx == Exchanged(x)
              sobs == GroupDiff(y, sx)
              sd == NullOf(RandomState(seed), sx, y, nsim)
          IN  /\ sobs = Neg(obs_diff)
              /\ \A j \in 1..nsim : sd[j] = Neg(diffs[j])
              /\ TwoSided(sd, sobs) = pval
    /\ (pc \in {"loop172", "cell178"} /\ i >= 1) =>
          /\ FrameDiff(exprs, Exchanged(x)) = [c \in 1..K |-> Neg(obs_diffs[c])]
          /\ FrameDiff(exprs, Exchanged(x1)) = [c \in 1..K |-> Neg(diffs[i][c])]

C8_Witness ==
    /\ SingleDone
    /\ Gt(obs_diff, Float(0, 1))
    /\ \E j \in 1..nsim : Lt(diffs[j], Neg(obs_diff))
    /\ pval = Float(1, nsim)

\* C9: executing the cells again with the same table and the same seed gives
\* the same observed statistics and the same p-values.
C9_Deterministic ==
    (pc = "done" /\ prev.ran) =>
        /\ obs_diff = prev.obs_diff
        /\ pval = prev.pval
        /\ obs_diffs = prev.obs_diffs
        /\ pvals = prev.pvals

C9_Witness ==
    /\ pc = "done"
    /\ prev.ran
    /\ pval = Float(1, nsim)
    /\ pvals[2] = Float(1, nsim)
    /\ x1 # x

\* both categories occur among the observed labels
BothLabels == \A g \in {-1, 1} : \E j \in 1..N : x[j] = g

\* C10: when both categories occur and a column has a group without any
\* non-missing value, the run fails: it returns no p-value, for that column
\* or any other, and no not-a-number statistic.
C10_DegenerateFails ==
    /\ ~(SingleDone /\ BothLabels /\ Degenerate(y, x))
    /\ ~(BatchDone /\ BothLabels /\ \E c \in 1..K : Degenerate(exprs[c], x))

\* C11: a run whose labels are not all one of the two categories fails and
\* returns no result.
C11_InvalidInputFails ==
    /\ ~(SingleDone /\ ~BinaryLabels)
    /\ ~(BatchDone /\ ~BinaryLabels)

\* C12: p-values are returned for every column or for none: once the
\* p-value loop is left all K iterations have been executed, and a state in
\* which only some columns have been computed is still inside the loop.
C12_FullMapping ==
    /\ BatchDone => Len(pvals) = K /\ i = K /\ Len(obs_diffs) = K
    /\ pc = "loop182" => Len(pvals) = K /\ i < K
    /\ pc \in {"cell134", "loop143", "cell153", "cell167", "cell170",
               "loop172", "cell178", "loop182", "cell192", "done"}

C12_Witness ==
    /\ pc = "done"
    /\ obs_diffs[1].nan
    /\ ~obs_diffs[2].nan
    /\ Len(pvals) = K

\* the labels of the rows that have one: 0 for a row without a status
LabelledOnly(st) ==
    [j \in 1..Len(st) |->
        IF st[j] = "Positive" THEN -1 ELSE IF st[j] = "Negative" THEN 1 ELSE 0]

\* C13: a row without a group label contributes to neither group's mean, in
\* the observed statistic and in every permuted statistic.
C13_UnlabelledExcluded ==
    /\ pc # "cell134" => IsMeanDiff(obs_diff, y, LabelledOnly(status))
    /\ (pc \in {"loop143", "cell153"} /\ i >= 1) =>
          CountLabel(x1, 1) + CountLabel(x1, -1)
              = Cardinality({j \in 1..N : LabelledOnly(status)[j] # 0})

\* the null distribution of column c of the many-protein test
NullColumn(c) == [r \in 1..Len(diffs) |-> diffs[r][c]]

ExampleCase ==
    /\ SingleDone
    /\ nsim = 1
    /\ x = ExampleLabels
    /\ y = ExampleOutcome
    /\ x1 \in {x, Exchanged(x)}

Blank(ex, c, j) == [ex EXCEPT ![c][j] = NaN]

\* the permutations lines 172-173 draw in n rounds from generator state r
RECURSIVE Draws(_, _, _)
Draws(r, lab, n) ==
    IF n = 0 THEN <<>>
    ELSE LET p == Permutation(r, lab)
         IN  <<p.arr>> \o Draws(p.rng, lab, n - 1)

\* the draws of the many-protein test of the present run: the generator
\* is the one the single-protein test has used for NSim rounds
BatchDraws ==
    Draws(RngAfter(RandomState(seed), Labels(status), NSim), Labels(status),
          NSimBatch)

\* the many-protein test on table ex with draws dr: lines 167, 174, 183
\* for column c
BatchOn(ex, dr, c) ==
    LET obs == FrameDiff(ex, Labels(status))[c]
        null == [r \in 1..Len(dr) |-> FrameDiff(ex, dr[r])[c]]
    IN  [obs |-> obs, null |-> null, p |-> OneSided(null, obs)]

\* C16: for the same labels and the same draws, replacing one value of one
\* column by a missing value leaves the observed statistic, the null
\* values and the p-value of every other column as they are.
C16_OtherColumnsUnchanged ==
    pc = "cell192" =>
        LET dr == BatchDraws
        IN  /\ dr[Len(dr)] = x1
            /\ \A c0 \in 1..K : \A j \in 1..N : \A c \in (1..K) \ {c0} :
                  LET b == BatchOn(Blank(exprs, c0, j), dr, c)
                  IN  /\ b.obs = obs_diffs[c]
                      /\ b.null = Column(diffs, c)
                      /\ b.p = pvals[c]

C16_Witness ==
    /\ pc = "cell192"
    /\ \E c0 \in 1..K : \E j \in 1..N :
          /\ ~exprs[c0][j].nan
          /\ BatchOn(Blank(exprs, c0, j), BatchDraws, c0).obs # obs_diffs[c0]
          /\ \E c \in (1..K) \ {c0} : ~obs_diffs[c].nan

\* C17: the cells read their inputs and do not write them: the table's
\* status and expression columns never change, and once line 137-138 have
\* bound x and y no later step changes them, in the first execution or in
\* a later one, which binds them to the same values again.
C17_InputsReadOnly ==
    [][/\ status' = status
       /\ exprs' = exprs
       /\ seed' = seed
       /\ (pc # "cell134" \/ prev.ran) => (x' = x /\ y' = y)
       /\ x' \in {<<>>, Labels(status)}
       /\ y' \in {<<>>, exprs[ColOf(protein)]}]_vars

C17_Witness ==
    /\ pc = "done"
    /\ prev.ran
    /\ x1 # x
    /\ x = Labels(status)
    /\ y = exprs[ColOf(protein)]

\* C18: the many-protein test over K columns ends with K observed
\* statistics and K p-values, and entry c of each is that of column c: the
\* observed statistic is the mean difference of column c, the last null
\* value of column c is the mean difference of column c under the last
\* permutation, and the p-value is the fraction of column c's null values
\* above column c's observed statistic.
C18_OwnColumn ==
    BatchDone =>
        /\ Len(obs_diffs) = K
        /\ Len(pvals) = K
        /\ \A r \in 1..Len(diffs) : Len(diffs[r]) = K
        /\ \A c \in 1..K :
              /\ IsMeanDiff(obs_diffs[c], exprs[c], x)
              /\ IsMeanDiff(diffs[nsim][c], exprs[c], x1)
              /\ pvals[c] = Float(GreaterCount(NullColumn(c), obs_diffs[c]),
                                  Len(diffs))

C18_Witness ==
    /\ BatchDone
    /\ \E c, d \in 1..K :
          /\ pvals[c] # pvals[d]
          /\ obs_diffs[c] # obs_diffs[d]
          /\ ~obs_diffs[c].nan
          /\ ~obs_diffs[d].nan

\* group g of column col has exactly one non-missing value, at row j, and
\* the other group has at least one
SingleValue(col, lab, g, j) ==
    /\ GroupRows(col, lab, g) = {j}
    /\ GroupRows(col, lab, -g) # {}

\* C19 (as stated): when a group of the column is left with exactly one
\* non-missing value, the run fails: it returns no statistic and no
\* p-value.
C19_SingleValueFails ==
    ~(SingleDone /\ \E g \in {-1, 1} : \E j \in 1..N : SingleValue(y, x, g, j))

\* C19 (amended): when a group of the column is left with exactly one
\* non-missing value and the other group has at least one, the run
\* returns: the group's mean is that one value, the statistic is the
\* difference of the two means and is a number, and the p-value is the
\* fraction of rounds strictly more extreme.
C19_SingleValueMean ==
    SingleDone =>
        \A g \in {-1, 1} : \A j \in 1..N :
            SingleValue(y, x, g, j) =>
                LET other == GroupRows(y, x, -g)
                    m == Div(SumOf(y, other), Cardinality(other))
                IN  /\ ~obs_diff.nan
                    /\ obs_diff = IF g = 1 THEN Sub(y[j], m) ELSE Sub(m, y[j])
                    /\ pval = Float(StrictCount(diffs, obs_diff), nsim)

C19_Witness ==
    /\ SingleDone
    /\ Missing(y) = 1
    /\ \E j \in 1..N : SingleValue(y, x, 1, j) /\ obs_diff = Float(1, 1)

\* the orders in which n rounds can be taken
Orders(n) == {o \in [1..n -> 1..n] : \A a, b \in 1..n : a # b => o[a] # o[b]}

SingleOrders == Orders(NSim)
BatchOrders == Orders(NSimBatch)

Reordered(d, o) == [j \in 1..Len(d) |-> d[o[j]]]

\* C20: the p-value depends on the null values and not on their order:
\* the null values of the rounds taken in any other order give the p-value
\* of the single-protein test, and those of each column give the column's
\* p-value of the many-protein test.
C20_OrderIndependent ==
    /\ SingleDone =>
          /\ Len(diffs) = NSim
          /\ \A o \in SingleOrders :
                TwoSided(Reordered(diffs, o), obs_diff) = pval
    /\ BatchDone =>
          /\ Len(diffs) = NSimBatch
          /\ \A c \in 1..K : \A o \in BatchOrders :
              OneSided(Reordered(NullColumn(c), o), obs_diffs[c]) = pvals[c]

C20_Witness ==
    /\ SingleDone
    /\ AbsGreater(diffs[nsim], obs_diff)
    /\ \E j \in 1..nsim : ~AbsGreater(diffs[j], obs_diff) /\ ~diffs[j].nan
    /\ \E o \in SingleOrders : Reordered(diffs, o) # diffs

\* C21: in every round of the many-protein loop the permutation is drawn
\* completely (x1 is the whole shuffle and the generator has advanced past
\* it) and the round's statistic of every column is computed from that
\* permutation; the rows of the earlier rounds are left as they are.
C21_DrawThenCompute ==
    [][pc = "loop172" =>
          LET p == Permutation(rng, x)
          IN  /\ x1' = p.arr
              /\ rng' = p.rng
              /\ \A c \in 1..K : diffs'[i + 1][c] = GroupDiff(exprs[c], x1')
              /\ \A r \in 1..i : diffs'[r] = diffs[r]]_vars

C21_Witness ==
    /\ pc = "cell178"
    /\ LET dr == BatchDraws
       IN  /\ dr[nsim] = x1
           /\ dr[nsim - 1] # x1
           /\ \E c \in 1..K :
                 diffs[nsim][c] # FrameDiff(exprs, dr[nsim - 1])[c]

\* C22: every round, of the single-protein loop and of the many-protein
\* loop, shuffles the original label vector: x is the label vector of the
\* table at the start of the round and after it, and the round's
\* permutation is the shuffle of that vector, whatever the round before
\* has left in x1.
C22_FromOriginalLabels ==
    [][(pc = "loop143" \/ pc = "loop172") =>
          LET drawn == Shuffle(Labels(status), rng, N)
          IN  /\ x = Labels(status)
              /\ x' = x
              /\ x1' = drawn.arr]_vars

C22_Witness ==
    /\ pc \in {"loop143", "loop172"}
    /\ i >= 1
    /\ x1 # x
    /\ Shuffle(x1, rng, N).arr # Shuffle(x, rng, N).arr

\* the positions of column col whose value enters a group mean under lab
UsedRows(col, lab) == GroupRows(col, lab, 1) \cup GroupRows(col, lab, -1)

\* the number of values np.nanmean averages in group g
Used(col, lab, g) == NanCount(Take(col, Eq(lab, g), 1))

\* C23: in every round the positions left out as missing are those of the
\* observed statistic, the non-missing positions of the column: the values
\* used in the two groups together are N less the column's missing values,
\* and the round's statistic is the difference of the group means over
\* exactly these positions. The same holds column by column in the
\* many-protein loop.
C23_FixedMissingness ==
    [][/\ pc = "loop143" =>
             /\ UsedRows(y, x1') = UsedRows(y, x)
             /\ UsedRows(y, x1') = {j \in 1..N : ~y[j].nan}
             /\ Used(y, x1', 1) + Used(y, x1', -1) = N - Missing(y)
             /\ Used(y, x, 1) + Used(y, x, -1) = N - Missing(y)
             /\ IsMeanDiff(diffs'[i + 1], y, x1')
             /\ IsMeanDiff(obs_diff, y, x)
       /\ pc = "loop172" =>
             \A c \in 1..K :
                 /\ UsedRows(exprs[c], x1') = {j \in 1..N : ~exprs[c][j].nan}
                 /\ IsMeanDiff(diffs'[i + 1][c], exprs[c], x1')
                 /\ IsMeanDiff(obs_diffs[c], exprs[c], x)]_vars

C23_Witness ==
    /\ pc \in {"loop143", "cell153"}
    /\ i >= 1
    /\ Missing(y) >= 1
    /\ ~obs_diff.nan
    /\ ~diffs[i].nan
    /\ GroupRows(y, x1, 1) # GroupRows(y, x, 1)

\* a round's statistic d is at least as extreme as the observed one
AtLeastAsExtreme(d, obs) == AbsGreater(d, obs) \/ AbsEqual(d, obs)

\* the streaming computation: the rounds dr are taken one after the other,
\* each round's row is compared with the observed row and dropped, and
\* only the count per column is kept; counted is "extreme" or "greater"
RECURSIVE StreamCounts(_, _, _, _)
StreamCounts(ex, obs, dr, counted) ==
    IF dr = <<>> THEN [c \in 1..Len(ex) |-> 0]
    ELSE LET before == StreamCounts(ex, obs, SubSeq(dr, 1, Len(dr) - 1),
                                    counted)
             row == FrameDiff(ex, dr[Len(dr)])
         IN  [c \in 1..Len(ex) |->
                 before[c] +
                 (IF (IF counted = "extreme"
                      THEN AtLeastAsExtreme(row[c], obs[c])
                      ELSE Gt(row[c], obs[c]))
                  THEN 1 ELSE 0)]

StreamPvals(counted) ==
    LET dr == BatchDraws
        cnt == StreamCounts(exprs, FrameDiff(exprs, Labels(status)), dr,
                            counted)
    IN  [c \in 1..K |-> Div(Float(cnt[c], 1), Len(dr))]

Returned == \A r \in Invocations : runs[r].i = nsim

\* the null distribution and the p-value of the loop running alone
AloneNull(n) == NullOf(RandomState(seed), x, y, n)

\* C25: with a generator of its own, every invocation computes, round by
\* round, the statistics it computes when it runs alone from the same
\* initial generator state, and returns the same p-value, however the
\* steps of the two invocations interleave. With one shared generator
\* this can fail (C25_Witness).
C25_SeparateSourcesIsolated ==
    pc = "separate" =>
        LET alone == AloneNull(nsim)
        IN  \A r \in Invocations :
                /\ \A j \in 1..runs[r].i : runs[r].diffs[j] = alone[j]
                /\ runs[r].i = nsim =>
                      runs[r].pval = TwoSided(alone, obs_diff)

C25_Witness ==
    /\ pc = "shared"
    /\ Returned
    /\ \E r \in Invocations :
          /\ runs[r].diffs # AloneNull(nsim)
          /\ runs[r].pval # TwoSided(AloneNull(nsim), obs_diff)

\* C26: on a complete table with two categories the cells run to the end:
\* the execution reaches "done" having drawn exactly NSim permutations in
\* the single-protein loop and NSimBatch in the many-protein loop, with a
\* row of statistics for each of the NSimBatch rounds.
C26_Terminates ==
    <>(/\ pc = "done"
       /\ Len(diffs) = NSimBatch
       /\ rng = RngAfter(RandomState(seed), Labels(status), NSim + NSimBatch)
       /\ diffs = [r \in 1..NSimBatch |-> FrameDiff(exprs, BatchDraws[r])])

C26_Witness ==
    /\ pc = "done"
    /\ Len(diffs) = NSimBatch
    /\ rng = RngAfter(RandomState(seed), Labels(status), NSim + NSimBatch)
    /\ rng # RngAfter(RandomState(seed), Labels(status), NSim + NSimBatch - 1)

\* d is a number greater than the number obs
Greater(d, obs) == ~d.nan /\ ~obs.nan /\ d.num * obs.den > obs.num * d.den

\* C27: a round whose permutation leaves a group of the column without a
\* non-missing value stores not-a-number as the round's statistic, and only
\* such a round does; the p-value is the number of rounds whose statistic
\* is a number more extreme than the observed one, divided by the number
\* of all rounds, those with a not-a-number statistic included. No step
\* fails. The same holds column by column in the many-protein test.
C27_EmptyGroupRound ==
    [][/\ pc = "loop143" =>
             /\ diffs'[i + 1].nan <=> Degenerate(y, x1')
             /\ Len(diffs') = nsim
       /\ pc = "cell153" =>
             /\ pval' = Float(Cardinality({j \in 1..Len(diffs) :
                                 AbsGreater(diffs[j], obs_diff)}), nsim)
             /\ Len(diffs) = nsim
       /\ pc = "loop172" =>
             \A c \in 1..K :
                 diffs'[i + 1][c].nan <=> Degenerate(exprs[c], x1')
       /\ pc = "loop182" =>
             /\ pvals'[i + 1] =
                   Float(Cardinality({j \in 1..Len(diffs) :
                            Greater(diffs[j][i + 1], obs_diffs[i + 1])}), nsim)
             /\ Len(diffs) = nsim]_vars

C27_Witness ==
    /\ SingleDone
    /\ ~Degenerate(y, x)
    /\ ~obs_diff.nan
    /\ \E j \in 1..nsim : diffs[j].nan
    /\ \E j \in 1..nsim : ~diffs[j].nan
    /\ ~pval.nan

\* C28: when the many-protein loop ends, the observed statistic of every
\* column c is the one the single-protein computation gives for column c
\* and the labels, and the null values of column c are those the
\* single-protein computation gives for column c from the same draws,
\* columns with missing values included.
C28_BatchEqualsSingle ==
    [][(pc = "loop172" /\ pc' = "cell178") =>
          \A c \in 1..K :
              /\ obs_diffs[c] = GroupDiff(exprs[c], x)
              /\ [r \in 1..NSimBatch |-> diffs'[r][c]] =
                    NullOf(RngAfter(RandomState(seed), x, NSim), x,
                           exprs[c], NSimBatch)]_vars

C28_Witness ==
    /\ pc = "cell178"
    /\ \E c \in 1..K :
          /\ \E j \in 1..N : exprs[c][j].nan
          /\ ~obs_diffs[c].nan
          /\ \E r \in 1..NSimBatch : ~diffs[r][c].nan
          /\ obs_diffs[c] = GroupDiff(exprs[c], x)

\* the p-value of column c of the many-protein test when the single-protein
\* test has drawn n permutations from the seeded generator before it
PvalAfter(n, c) ==
    BatchOn(exprs,
            Draws(RngAfter(RandomState(seed), Labels(status), n),
                  Labels(status), NSimBatch), c).p

\* C29: the many-protein test creates no generator: line 170 leaves the
\* generator as the single-protein test left it, NSim permutations after
\* its seeding; the rounds of the many-protein test draw the permutations
\* that follow, and its p-values are those of these draws.
C29_ContinuesGenerator ==
    [][/\ pc = "cell170" =>
             /\ rng' = rng
             /\ rng = RngAfter(RandomState(seed), x, NSim)
       /\ pc = "loop172" =>
             /\ x1' = BatchDraws[i + 1]
             /\ rng' = RngAfter(RandomState(seed), x, NSim + i + 1)
       /\ (pc = "loop182" /\ pc' = "cell192") =>
             \A c \in 1..K : pvals'[c] = PvalAfter(NSim, c)]_vars

\* a run whose many-protein p-values are neither those of a generator that
\* has drawn nothing nor those of one that has drawn one permutation less
C29_Witness ==
    /\ pc = "cell192"
    /\ \E c \in 1..K : pvals[c] # PvalAfter(0, c)
    /\ \E c \in 1..K : pvals[c] # PvalAfter(NSim - 1, c)

\* the column named nm has the p-value zero
HasZeroPval(nm) ==
    \E c \in 1..K : ExprNames[c] = nm /\ pvals[c] = Float(0, 1)

\* C30: every p-value of the many-protein test is a count of rounds divided
\* by nsim, and line 192 lists, in the order of the columns, exactly the
\* columns whose p-value is zero (no null value greater than the observed
\* statistic): no column with a positive p-value is listed.
C30_ShortlistIsZero ==
    [][pc = "cell192" =>
          /\ \A c \in 1..K : \E k \in 0..nsim : pvals[c] = Float(k, nsim)
          /\ exprs_shortlist' = SelectSeq(ExprNames, HasZeroPval)
          /\ \A c \in 1..K :
                HasZeroPval(ExprNames[c]) <=>
                    ~\E r \in 1..nsim : Greater(diffs[r][c], obs_diffs[c])]_vars

C30_Witness ==
    /\ pc = "done"
    /\ Len(exprs_shortlist) >= 1
    /\ \E c \in 1..K :
          /\ Gt(pvals[c], Float(0, 1))
          /\ \A k \in 1..Len(exprs_shortlist) :
                exprs_shortlist[k] # ExprNames[c]
====
